---- MODULE Spec2Model ----
(***************************************************************************)
(* IndexChat: the /ask request handler, the tool-calling loop of           *)
(* processQuery (server/server.js) and the multi-modal retrieval of        *)
(* searchPdfs / searchTable (server/ragTools.js, three-modality variant);   *)
(* further the port search of the server start-up and the browser          *)
(* components ChatBox, Sidebar and Home (ui/).                             *)
(*                                                                         *)
(* Representation choices:                                                 *)
(*  - A float vector is a record [len, head]: `len' is the array length    *)
(*    and `head' its leading components; all further components are 0.     *)
(*    This keeps the real dimensions (3072 / 512) of the source.           *)
(*  - A stored BLOB is a record [bytes, head]: `bytes' is the buffer       *)
(*    length, `head' the leading floats it encodes.                        *)
(*  - Vectors are restricted to integer components with a perfect-square   *)
(*    squared norm, so that Math.sqrt and the final division are exact or  *)
(*    correctly rounded and comparisons of similarities agree with the     *)
(*    comparison of the rationals num/den used here.                       *)
(*  - A JSON argument string is represented by what JSON.parse makes of    *)
(*    it: [valid, query, has_top_k, top_k].                                *)
(***************************************************************************)
EXTENDS Integers, Sequences, FiniteSets, TLC

VARIABLES
    pc,               \* position of the request: see PcValues
    body,             \* req.body of the /ask request
    messages,         \* processQuery: const messages
    sources,          \* processQuery: const sources
    assistantMessage, \* processQuery: let assistantMessage
    toolIdx,          \* index of the tool call the for-loop is at (1-based)
    topK,             \* processQuery: const topK of the current invocation
    allResults,       \* searchPdfs: const allResults
    textRes,          \* searchPdfs: const textRes
    clipEmb,          \* searchPdfs: const clipEmb
    clapEmb,          \* searchPdfs: const clapEmb
    dbOpen,           \* number of open database handles
    response,         \* what /ask sent: [status, body]
    rounds,           \* number of passes through the while-loop body
    calls,            \* number of tool invocations the model has issued
    modelCalls,       \* number of chat-completion calls made
    retrievals,       \* number of searchPdfs calls started
    returned,         \* ids of all chunks returned by searchPdfs, in order
    outcomes,         \* per processed invocation: [id, kind, result]
    modelFailed,      \* a chat-completion call of the request has thrown
    dbExists,         \* fs.existsSync(DB_PATH)
    documents,        \* rows of the `documents' table
    vssMode,          \* state of the VSS extension / vss_* tables
    hfToken,          \* process.env.HUGGINGFACE_API_KEY is set
    probe,            \* last direct call of an exported/internal function, with its result
    parked,           \* locals of the other /ask request in flight, suspended at an await
    active,           \* which of the two requests the event loop is running (1 or 2)
    aborted,          \* the caller of the running request has closed its connection
    chat,             \* ChatBox: [query, messages, loading] and its /ask requests
    sidebar,          \* Sidebar: [files, loading, error] and its /files requests
    home,             \* Home: [sources, isLoading], its /files and /upload requests
    indexed,          \* what getIndexedFiles() returns to GET /files
    boot,             \* findAvailablePort and the server start
    net               \* the ports other processes hold, the ports the OS refuses

reqVars == <<pc, body, messages, sources, assistantMessage, toolIdx, topK,
             allResults, response>>
logVars == <<rounds, calls, modelCalls, retrievals, returned, outcomes,
             modelFailed>>
envVars == <<dbExists, documents, vssMode, hfToken>>
searchVars == <<textRes, clipEmb, clapEmb>>
sessVars == <<parked, active, aborted>>
edgeVars == <<chat, sidebar, home, indexed, boot, net>>
vars == <<reqVars, searchVars, dbOpen, logVars, envVars, probe, sessVars,
          edgeVars>>

-----------------------------------------------------------------------------
(* Bounds of the exploration *)

\* most tool-execution rounds the generative model is explored to request
MaxRounds == 2
\* most tool invocations the generative model issues in one request
MaxCalls == 2
\* most tool invocations in one assistant message
MaxBatch == 2

-----------------------------------------------------------------------------
(* Program constants *)

TEXT_EMBED_DIM == 3072
CLIP_DIM == 512
CLAP_DIM == 512
DefaultTopK == 5
SYSTEM_PROMPT == "You are a helpful assistant ..."

NULL == [kind |-> "null"]
Text(s) == [kind |-> "text", text |-> s]

-----------------------------------------------------------------------------
(* Sequence helpers *)

Min(a, b) == IF a <= b THEN a ELSE b
Max(a, b) == IF a >= b THEN a ELSE b

\* Array.prototype.slice(0, n), n an integer (negative n counts from the end)
Slice0(s, n) ==
    LET e == IF n < 0 THEN Max(Len(s) + n, 0) ELSE Min(n, Len(s))
    IN  SubSeq(s, 1, e)

Range(s) == {s[i] : i \in 1..Len(s)}

-----------------------------------------------------------------------------
(* The persisted chunk store (read-only for the server) *)

Vec(n, h) == [len |-> n, head |-> h]
Blob(n, h) == [bytes |-> n, head |-> h]

Row(i, f, t, c, e) ==
    [id |-> i, file_name |-> f, content_type |-> t, chunk_text |-> c,
     embedding |-> e, metadata |-> NULL]

\* a well-formed store: two text chunks of one file, one of another,
\* two images, one audio chunk
StoreGood ==
    << Row(1, "report.pdf", "text", "t1", Blob(4 * TEXT_EMBED_DIM, <<3, 4>>)),
       Row(2, "report.pdf", "text", "t2", Blob(4 * TEXT_EMBED_DIM, <<1, 0>>)),
       Row(3, "notes.txt", "text", "t3", Blob(4 * TEXT_EMBED_DIM, <<0, 1>>)),
       Row(4, "car.png", "image", "i4", Blob(4 * CLIP_DIM, <<1, 0>>)),
       Row(5, "cat.png", "image", "i5", Blob(4 * CLIP_DIM, <<0, 1>>)),
       Row(6, "talk.mp3", "audio", "a6", Blob(4 * CLAP_DIM, <<1, 0>>)) >>

\* a store written by a different indexer run: one text chunk has another
\* dimension, one image BLOB is truncated in the middle of a float
StoreBad ==
    << Row(1, "report.pdf", "text", "t1", Blob(4 * TEXT_EMBED_DIM, <<1, 0>>)),
       Row(2, "old.pdf", "text", "t2", Blob(4 * 1536, <<1, 0>>)),
       Row(4, "car.png", "image", "i4", Blob(4 * CLIP_DIM - 2, <<1, 0>>)),
       Row(6, "talk.mp3", "audio", "a6", Blob(4 * CLAP_DIM, <<0, 1>>)) >>

Stores == {StoreGood, StoreBad}
\* the extension is not loaded / the index has no row / the index answers
VssModes == {"unavailable", "empty", "rows"}

-----------------------------------------------------------------------------
(* Embedding codec and similarity engine *)

Ok(v) == [ok |-> TRUE, val |-> v]
Throw(m) == [ok |-> FALSE, error |-> m]

Abs(x) == IF x < 0 THEN -x ELSE x

\* spacing of the single-precision floats around the integer x: integers
\* below 2^24 are exact, then every 2nd, every 4th (|x| < 2^26 in the model)
UlpOf(x) == IF Abs(x) < 16777216 THEN 1 ELSE IF Abs(x) < 33554432 THEN 2 ELSE 4

\* the double x cut to the next single-precision float towards zero
FroundTowardZero(x) ==
    LET q == Abs(x) \div UlpOf(x)
    IN  (IF x < 0 THEN -1 ELSE 1) * q * UlpOf(x)

\* writeFloatLE stores the double x as the nearest single-precision float
\* (ties to even); readFloatLE gives that float back as a double
Fround(x) ==
    LET u == UlpOf(x)
        q == Abs(x) \div u
        r == Abs(x) % u
        n == IF 2 * r < u THEN q
             ELSE IF 2 * r > u THEN q + 1
             ELSE IF q % 2 = 0 THEN q ELSE q + 1
    IN  (IF x < 0 THEN -1 ELSE 1) * n * u

\* const buffer = Buffer.alloc(dim * 4);
\* for (i = 0; i < queryEmbedding.length; i++) buffer.writeFloatLE(queryEmbedding[i], i * 4);
\* writeFloatLE throws a RangeError at the first offset behind the buffer
serializeEmbedding(vec, dim) ==
    IF vec.len > dim
    THEN Throw("RangeError: out of range")
    ELSE Ok(Blob(4 * dim, [i \in 1..Len(vec.head) |-> Fround(vec.head[i])]))

\* the bytes behind the last whole float are ignored
deserializeEmbeddingTruncating(buffer) ==
    Ok(Vec(buffer.bytes \div 4, buffer.head))

\* for (i = 0; i < buffer.length; i += 4) floats.push(buffer.readFloatLE(i));
\* readFloatLE throws a RangeError when fewer than 4 bytes remain at i
deserializeEmbedding(buffer) ==
    IF buffer.bytes % 4 # 0
    THEN Throw("RangeError: out of range")
    ELSE Ok(Vec(buffer.bytes \div 4, buffer.head))

At(v, i) == IF i <= Len(v.head) /\ i <= v.len THEN v.head[i] ELSE 0

RECURSIVE SumTo(_, _)
SumTo(f, n) == IF n = 0 THEN 0 ELSE f[n] + SumTo(f, n - 1)

\* exact square root; the vectors of the model have perfect-square norms
ISqrt(n) == CHOOSE r \in 0..n : r * r = n

Sim(n, d) == [nan |-> FALSE, num |-> n, den |-> d]
NaN == [nan |-> TRUE, num |-> 0, den |-> 1]

\* without `if (normA === 0 || normB === 0) return 0;'
cosineSimilarityNoZeroCheck(vecA, vecB) ==
    LET h == Min(vecA.len, Max(Len(vecA.head), Len(vecB.head)))
        dotProduct == SumTo([i \in 1..h |-> At(vecA, i) * At(vecB, i)], h)
        normA == SumTo([i \in 1..h |-> At(vecA, i) * At(vecA, i)], h)
        normB == SumTo([i \in 1..h |-> At(vecB, i) * At(vecB, i)], h)
    IN  IF vecA.len > vecB.len
        THEN NaN
        ELSE Sim(dotProduct, ISqrt(normA) * ISqrt(normB))

\* The loop runs over vecA.length; a missing vecB[i] is `undefined' and makes
\* dotProduct and normB NaN.
cosineSimilarity(vecA, vecB) ==
    LET h == Min(vecA.len, Max(Len(vecA.head), Len(vecB.head)))
        dotProduct == SumTo([i \in 1..h |-> At(vecA, i) * At(vecB, i)], h)
        normA == SumTo([i \in 1..h |-> At(vecA, i) * At(vecA, i)], h)
        normB == SumTo([i \in 1..h |-> At(vecB, i) * At(vecB, i)], h)
    IN  IF vecA.len > vecB.len
        THEN IF normA = 0 THEN Sim(0, 1) ELSE NaN
        ELSE IF normA = 0 \/ normB = 0
             THEN Sim(0, 1)
             ELSE Sim(dotProduct, ISqrt(normA) * ISqrt(normB))

\* a.similarity - b.similarity < 0: the comparator of an ascending sort
BeforeAscending(a, b) ==
    /\ ~a.similarity.nan
    /\ ~b.similarity.nan
    /\ a.similarity.num * b.similarity.den < b.similarity.num * a.similarity.den

\* b.similarity - a.similarity < 0, i.e. a sorts before b; a NaN difference
\* counts as 0
Before(a, b) ==
    /\ ~a.similarity.nan
    /\ ~b.similarity.nan
    /\ b.similarity.num * a.similarity.den < a.similarity.num * b.similarity.den

\* Array.prototype.sort is stable: x goes behind everything it is not before
RECURSIVE InsertSorted(_, _)
InsertSorted(s, x) ==
    IF s = <<>> THEN <<x>>
    ELSE IF Before(x, s[1]) THEN <<x>> \o s
    ELSE <<s[1]>> \o InsertSorted(Tail(s), x)

RECURSIVE SortBySimilarity(_)
SortBySimilarity(s) ==
    IF s = <<>> THEN <<>>
    ELSE InsertSorted(SortBySimilarity(SubSeq(s, 1, Len(s) - 1)), s[Len(s)])

-----------------------------------------------------------------------------
(* Modality index: searchTable *)

OfType(docs, type) == SelectSeq(docs, LAMBDA d : d.content_type = type)

Reverse(s) == [i \in 1..Len(s) |-> s[Len(s) + 1 - i]]

\* what the external VSS query returns when it does not raise: rows of the
\* modality in the index's own order (here: descending rowid), LIMIT ?
\* (a negative LIMIT is no limit)
VssRows(docs, type, mode, limit) ==
    LET rows == IF mode = "empty" THEN <<>>
                ELSE Reverse(OfType(docs, type))
    IN  IF limit < 0 THEN rows ELSE SubSeq(rows, 1, Min(limit, Len(rows)))

VssResult(r, type) ==
    [id |-> r.id, file_name |-> r.file_name, content_type |-> r.content_type,
     chunk_text |-> r.chunk_text, metadata |-> r.metadata]

SimResult(doc, queryEmbedding) ==
    [id |-> doc.id, file_name |-> doc.file_name,
     content_type |-> doc.content_type, chunk_text |-> doc.chunk_text,
     metadata |-> doc.metadata,
     similarity |-> cosineSimilarity(queryEmbedding,
                                     deserializeEmbedding(doc.embedding).val)]

\* docs.map(...).filter(r => r !== null): a row whose embedding has another
\* length than dim is dropped
BruteForce(docs, queryEmbedding, type, k, dim) ==
    LET rows == OfType(docs, type)
        bad == {i \in 1..Len(rows) : ~deserializeEmbedding(rows[i].embedding).ok}
        kept == SelectSeq(rows, LAMBDA d :
                    deserializeEmbedding(d.embedding).val.len = dim)
        sims == [i \in 1..Len(kept) |-> SimResult(kept[i], queryEmbedding)]
    IN  IF bad # {}
        THEN Throw(deserializeEmbedding(rows[CHOOSE i \in bad : TRUE].embedding).error)
        ELSE Ok(Slice0(SortBySimilarity(sims), k))

\* the rows of the index are returned even when there are none
searchTableNoFallback(docs, vss, queryEmbedding, type, k, dim) ==
    IF queryEmbedding = NULL THEN Ok(<<>>)
    ELSE IF queryEmbedding.len > dim THEN Throw("RangeError: out of range")
    ELSE IF vss # "unavailable"
    THEN Ok([i \in 1..Len(VssRows(docs, type, vss, k)) |->
                VssResult(VssRows(docs, type, vss, k)[i], type)])
    ELSE BruteForce(docs, queryEmbedding, type, k, dim)

searchTable(docs, vss, queryEmbedding, type, k, dim) ==
    IF queryEmbedding = NULL THEN Ok(<<>>)
    \* buffer.writeFloatLE(queryEmbedding[i], i * 4) into Buffer.alloc(dim * 4)
    ELSE IF ~serializeEmbedding(queryEmbedding, dim).ok
    THEN serializeEmbedding(queryEmbedding, dim)
    ELSE IF vss # "unavailable" /\ Len(VssRows(docs, type, vss, k)) > 0
    THEN Ok([i \in 1..Len(VssRows(docs, type, vss, k)) |->
                VssResult(VssRows(docs, type, vss, k)[i], type)])
    ELSE BruteForce(docs, queryEmbedding, type, k, dim)

-----------------------------------------------------------------------------
(* The embedding providers, as far as the server sees them *)

\* openai.embeddings.create: a 3072-vector, or the call throws
TextEmbedError == "embedding request failed"
TextEmbeddings == {Vec(TEXT_EMBED_DIM, <<1, 0>>)}

\* getClipTextEmbedding / getClapTextEmbedding: null without token, on a
\* non-OK response and on any exception; else whatever array the model sent
ClipEmbeddings == {Vec(CLIP_DIM, <<1, 0>>), Vec(768, <<1, 0>>)}
ClapEmbeddings == {Vec(CLAP_DIM, <<0, 1>>)}

-----------------------------------------------------------------------------
(* Conversation records *)

NoCalls == [present |-> FALSE, calls |-> <<>>]
Calls(cs) == [present |-> TRUE, calls |-> cs]

Msg(r, c, tc, id) ==
    [role |-> r, content |-> c, tool_calls |-> tc, tool_call_id |-> id]

\* JSON.parse(toolCall.function.arguments)
BadJson == [valid |-> FALSE, query |-> "", has_top_k |-> FALSE, top_k |-> 0]
Args(q, has, k) == [valid |-> TRUE, query |-> q, has_top_k |-> has, top_k |-> k]

ToolCall(i, n, a) == [id |-> i, name |-> n, arguments |-> a]

\* the invocations a generative model is explored to issue
CallKinds ==
    { [name |-> "search_pdfs", arguments |-> Args("revenue Q3", FALSE, 0)],
      [name |-> "search_pdfs", arguments |-> Args("revenue Q3", TRUE, 1)],
      [name |-> "search_pdfs", arguments |-> Args("revenue Q3", TRUE, -1)],
      [name |-> "search_pdfs", arguments |-> BadJson],
      [name |-> "list_files", arguments |-> Args("", FALSE, 0)] }

Batches(first, n) ==
    UNION { { [i \in 1..l |-> ToolCall(first + i, ks[i].name, ks[i].arguments)] :
                ks \in [1..l -> CallKinds] } : l \in 1..n }

Bodies ==
    { [query |-> NULL], [query |-> [kind |-> "number", value |-> 42]],
      [query |-> Text("")], [query |-> Text("What happened to revenue in Q3?")] }

\* a test for presence instead of typeof
IsStringAnyValue(v) == v.kind # "null"

IsString(v) == v.kind = "text"
Falsy(v) == v = NULL \/ v = Text("") \/ v = [kind |-> "number", value |-> 0]

\* tool_calls.length > 1
HasToolCallsOffByOne(m) == m.tool_calls.present /\ Len(m.tool_calls.calls) > 1

HasToolCalls(m) == m.tool_calls.present /\ Len(m.tool_calls.calls) > 0

-----------------------------------------------------------------------------
(* processQuery: bookkeeping of one settled searchPdfs call *)

\* sources.unshift({id, file_name}): the new entry moves the others
PushSourceUnshift(srcs, r) == <<[id |-> r.id, file_name |-> r.file_name]>> \o srcs

\* sources.push({ id: result.id, file_name: result.file_name })
PushSource(srcs, r) == Append(srcs, [id |-> r.id, file_name |-> r.file_name])

RECURSIVE TrackSourcesNoDedup(_, _)
\* sources.push without the find() test
TrackSourcesNoDedup(srcs, results) ==
    IF results = <<>> THEN srcs
    ELSE TrackSourcesNoDedup(
             Append(srcs, [id |-> results[1].id, file_name |-> results[1].file_name]),
             Tail(results))

RECURSIVE TrackSources(_, _)
\* for (const result of results)
\*   if (!sources.find((s) => s.id === result.id)) sources.push({id, file_name})
TrackSources(srcs, results) ==
    IF results = <<>> THEN srcs
    ELSE LET r == results[1]
         IN  TrackSources(
                 IF \E j \in 1..Len(srcs) : srcs[j].id = r.id
                 THEN srcs
                 ELSE PushSource(srcs, r),
                 Tail(results))

\* an empty result list is formatted like a non-empty one
FormatToolResponseNoEmptyCase(results) ==
    [kind |-> "found", count |-> Len(results),
     items |-> [i \in 1..Len(results) |->
                   [n |-> i, file_name |-> results[i].file_name,
                    type |-> results[i].content_type,
                    chunk_text |-> results[i].chunk_text]]]

FormatToolResponse(results) ==
    IF Len(results) > 0
    THEN [kind |-> "found", count |-> Len(results),
          items |-> [i \in 1..Len(results) |->
                        [n |-> i, file_name |-> results[i].file_name,
                         type |-> results[i].content_type,
                         chunk_text |-> results[i].chunk_text]]]
    ELSE [kind |-> "none"]

\* the error message is left out of the tool-result text
ToolErrorNoMessage(m) == [kind |-> "error", message |-> ""]

ToolError(m) == [kind |-> "error", message |-> m]

Ids(results) == [i \in 1..Len(results) |-> results[i].id]

CurrentCall == assistantMessage.tool_calls.calls[toolIdx]

\* end of one iteration of the for-loop: the next invocation, or, behind the
\* last one, the next chat-completion call
NextIteration ==
    IF toolIdx < Len(assistantMessage.tool_calls.calls)
    THEN /\ toolIdx' = toolIdx + 1
         /\ pc' = "EXECUTING_TOOLS"
         /\ UNCHANGED modelCalls
    ELSE /\ toolIdx' = 0
         /\ pc' = "AWAITING_MODEL"
         /\ modelCalls' = modelCalls + 1

\* an empty catch block: the error is swallowed and nothing is pushed
ToolSettledSilentCatch(res) ==
    /\ IF res.ok
       THEN /\ sources' = TrackSources(sources, res.val)
            /\ messages' = Append(messages,
                   Msg("tool", FormatToolResponse(res.val), NoCalls, CurrentCall.id))
            /\ returned' = returned \o Ids(res.val)
       ELSE UNCHANGED <<messages, sources, returned>>
    /\ outcomes' = Append(outcomes,
           [id |-> CurrentCall.id, kind |-> "searched", result |-> res])
    /\ NextIteration

\* searchPdfs has settled with res (returned rows, or thrown): lines 92-132
ToolSettled(res) ==
    /\ IF res.ok
       THEN /\ sources' = TrackSources(sources, res.val)
            /\ messages' = Append(messages,
                   Msg("tool", FormatToolResponse(res.val), NoCalls, CurrentCall.id))
            /\ returned' = returned \o Ids(res.val)
       ELSE /\ messages' = Append(messages,
                   Msg("tool", ToolError(res.error), NoCalls, CurrentCall.id))
            /\ UNCHANGED <<sources, returned>>
    /\ outcomes' = Append(outcomes,
           [id |-> CurrentCall.id, kind |-> "searched", result |-> res])
    /\ NextIteration

\* the catch block of app.post("/ask")
ServerFault(details) ==
    [status |-> 500,
     body |-> [error |-> "Failed to process query", details |-> details]]

-----------------------------------------------------------------------------
(* Initial state: a server with no request yet, over some store *)

-----------------------------------------------------------------------------
(* searchPdfs of the two-modality ragTools.js (text and images only) *)

\* the row shape both branches of that variant map to: no metadata, no
\* similarity
PlainResult(r) ==
    [id |-> r.id, file_name |-> r.file_name, content_type |-> r.content_type,
     chunk_text |-> r.chunk_text]

\* one modality of that searchPdfs: the buffer write and the VSS query stand
\* inside one try whose catch is empty; brute force runs when that left no
\* row, over every row of the modality (no length filter)
searchModality(docs, vss, queryEmbedding, type, k, dim) ==
    LET vssRows == IF vss = "unavailable"
                      \/ ~serializeEmbedding(queryEmbedding, dim).ok
                   THEN <<>>
                   ELSE VssRows(docs, type, vss, k)
        rows == OfType(docs, type)
        bad == {i \in 1..Len(rows) : ~deserializeEmbedding(rows[i].embedding).ok}
        similarities == [i \in 1..Len(rows) |-> SimResult(rows[i], queryEmbedding)]
        top == Slice0(SortBySimilarity(similarities), k)
    IN  IF Len(vssRows) > 0
        THEN Ok([i \in 1..Len(vssRows) |-> PlainResult(vssRows[i])])
        ELSE IF bad # {}
        THEN Throw(deserializeEmbedding(rows[CHOOSE i \in bad : TRUE].embedding).error)
        ELSE Ok([i \in 1..Len(top) |-> PlainResult(top[i])])

\* the image rows that searchPdfs pushes behind the text rows; the CLIP
\* embedding comes from a synchronous execSync and is null on any failure
imageResults(docs, vss, clipQueryEmbedding, k) ==
    IF clipQueryEmbedding = NULL THEN Ok(<<>>)
    ELSE searchModality(docs, vss, clipQueryEmbedding, "image", k, CLIP_DIM)

\* allResults.push(...textResults); allResults.push(...imageResults);
\* return allResults.slice(0, topK);
searchPdfsTextAndImages(docs, vss, textQueryEmbedding, clipQueryEmbedding, k) ==
    LET textResults == searchModality(docs, vss, textQueryEmbedding, "text", k,
                                      TEXT_EMBED_DIM)
        images == imageResults(docs, vss, clipQueryEmbedding, k)
    IN  IF textQueryEmbedding = NULL THEN Throw(TextEmbedError)
        ELSE IF ~textResults.ok THEN textResults
        ELSE IF ~images.ok THEN images
        ELSE Ok(Slice0(textResults.val \o images.val, k))

-----------------------------------------------------------------------------
(* The request *)

PcValues == {"IDLE", "AWAITING_MODEL", "EXECUTING_TOOLS", "EMBED_TEXT",
             "EMBED_IMAGE", "EMBED_AUDIO", "DONE"}

NoResponse == [status |-> 0, body |-> NULL]

NoProbe == [op |-> "none"]

-----------------------------------------------------------------------------
(* The browser components and the server start-up before anything ran *)

\* ChatBox: useState(""), useState([]), useState(false); no request sent.
\* `declined' counts the submits that handleSubmit returned from at once.
ChatInitial ==
    [query |-> <<>>, messages |-> <<>>, loading |-> FALSE, inflight |-> <<>>,
     declined |-> 0]

\* Sidebar: useState([]), useState(true), useState(""); the mount effect has
\* not run. `settled' lists how the fetches ended, in the order they ended.
SidebarInitial ==
    [files |-> <<>>, loading |-> TRUE, error |-> "", mounted |-> FALSE,
     pending |-> 0, settled |-> <<>>]

\* Home: useState([]), useState(true); the mount effect has not run.
\* `fetches' is one record per fetchSources call, in the order of the calls.
HomeInitial ==
    [sources |-> <<>>, isLoading |-> TRUE, mounted |-> FALSE, fetches |-> <<>>,
     uploads |-> 0, uploaded |-> 0]

\* the start-up code has not run
BootInitial ==
    [pc |-> "not started", PORT |-> NULL, startPort |-> NULL, probes |-> <<>>,
     open |-> 0, closed |-> 0, result |-> NULL]

NetQuiet == [busy |-> {}, denied |-> {}]

EdgeIdle ==
    /\ chat = ChatInitial
    /\ sidebar = SidebarInitial
    /\ home = HomeInitial
    /\ indexed = <<>>
    /\ boot = BootInitial
    /\ net = NetQuiet

\* the locals of a request that has not been received yet
FreshRequest ==
    [pc |-> "IDLE", body |-> [query |-> NULL], messages |-> <<>>,
     sources |-> <<>>, assistantMessage |-> Msg("none", NULL, NoCalls, 0),
     toolIdx |-> 0, topK |-> 0, allResults |-> <<>>, response |-> NoResponse,
     textRes |-> <<>>, clipEmb |-> NULL, clapEmb |-> NULL,
     rounds |-> 0, calls |-> 0, modelCalls |-> 0, retrievals |-> 0,
     returned |-> <<>>, outcomes |-> <<>>, modelFailed |-> FALSE,
     aborted |-> FALSE]

\* a fresh process: no request received, nothing called
InitRequest ==
    /\ pc = "IDLE"
    /\ body = [query |-> NULL]
    /\ messages = <<>>
    /\ sources = <<>>
    /\ assistantMessage = Msg("none", NULL, NoCalls, 0)
    /\ toolIdx = 0
    /\ topK = 0
    /\ allResults = <<>>
    /\ textRes = <<>>
    /\ clipEmb = NULL
    /\ clapEmb = NULL
    /\ dbOpen = 0
    /\ response = NoResponse
    /\ rounds = 0
    /\ calls = 0
    /\ modelCalls = 0
    /\ retrievals = 0
    /\ returned = <<>>
    /\ outcomes = <<>>
    /\ modelFailed = FALSE
    /\ probe = NoProbe
    /\ parked = FreshRequest
    /\ active = 1
    /\ aborted = FALSE

Init ==
    /\ InitRequest
    /\ EdgeIdle
    /\ \/ /\ dbExists = FALSE
          /\ documents = <<>>
          /\ vssMode = "unavailable"
       \/ /\ dbExists = TRUE
          /\ documents \in Stores
          /\ vssMode \in VssModes
    /\ hfToken \in BOOLEAN

-----------------------------------------------------------------------------
(* app.post("/ask"): validation and the first chat-completion call *)

\* the history starts with the user message; the system prompt comes second
AskReceiveUserFirst(b) ==
    /\ pc = "IDLE"
    /\ body' = b
    /\ IF Falsy(b.query) \/ ~IsString(b.query)
       THEN /\ response' = [status |-> 400,
                            body |-> [error |-> "Query is required"]]
            /\ pc' = "DONE"
            /\ UNCHANGED <<messages, modelCalls>>
       ELSE /\ messages' = << Msg("user", b.query, NoCalls, 0),
                              Msg("system", Text(SYSTEM_PROMPT), NoCalls, 0) >>
            /\ modelCalls' = modelCalls + 1
            /\ pc' = "AWAITING_MODEL"
            /\ UNCHANGED response
    /\ UNCHANGED <<sources, assistantMessage, toolIdx, topK, allResults, dbOpen,
                   rounds, calls, retrievals, returned, outcomes, modelFailed,
                   searchVars, envVars, probe, sessVars,
                   edgeVars>>

AskReceive(b) ==
    /\ pc = "IDLE"
    /\ body' = b
    /\ IF Falsy(b.query) \/ ~IsString(b.query)
       THEN /\ response' = [status |-> 400,
                            body |-> [error |-> "Query is required"]]
            /\ pc' = "DONE"
            /\ UNCHANGED <<messages, modelCalls>>
       ELSE /\ messages' = << Msg("system", Text(SYSTEM_PROMPT), NoCalls, 0),
                              Msg("user", b.query, NoCalls, 0) >>
            /\ modelCalls' = modelCalls + 1
            /\ pc' = "AWAITING_MODEL"
            /\ UNCHANGED response
    /\ UNCHANGED <<sources, assistantMessage, toolIdx, topK, allResults, dbOpen,
                   rounds, calls, retrievals, returned, outcomes, modelFailed,
                   searchVars, envVars, probe, sessVars,
                   edgeVars>>

\* the handler answers with the answer only, as before sources were tracked
ModelRespondAnswerOnly(m) ==
    /\ pc = "AWAITING_MODEL"
    /\ assistantMessage' = m
    /\ IF HasToolCalls(m)
       THEN /\ messages' = Append(messages, m)
            /\ toolIdx' = 1
            /\ rounds' = rounds + 1
            /\ calls' = calls + Len(m.tool_calls.calls)
            /\ pc' = "EXECUTING_TOOLS"
            /\ UNCHANGED response
       ELSE /\ response' = IF m.content = NULL
                           THEN ServerFault("TypeError: Cannot read properties of null")
                           ELSE [status |-> 200,
                                 body |-> [answer |-> m.content, sources |-> <<>>]]
            /\ pc' = "DONE"
            /\ UNCHANGED <<messages, toolIdx, rounds, calls>>
    /\ UNCHANGED <<body, sources, topK, allResults, dbOpen, modelCalls,
                   retrievals, returned, outcomes, modelFailed, searchVars,
                   envVars, probe, sessVars,
                   edgeVars>>

(* a chat completion returns m: the while condition, and behind the loop the
   return of processQuery and the rest of the /ask handler *)
ModelRespond(m) ==
    /\ pc = "AWAITING_MODEL"
    /\ assistantMessage' = m
    /\ IF HasToolCalls(m)
       THEN /\ messages' = Append(messages, m)
            /\ toolIdx' = 1
            /\ rounds' = rounds + 1
            /\ calls' = calls + Len(m.tool_calls.calls)
            /\ pc' = "EXECUTING_TOOLS"
            /\ UNCHANGED response
       ELSE \* result.answer.length throws on a null content
            /\ response' = IF m.content = NULL
                           THEN ServerFault("TypeError: Cannot read properties of null")
                           ELSE [status |-> 200,
                                 body |-> [answer |-> m.content, sources |-> sources]]
            /\ pc' = "DONE"
            /\ UNCHANGED <<messages, toolIdx, rounds, calls>>
    /\ UNCHANGED <<body, sources, topK, allResults, dbOpen, modelCalls,
                   retrievals, returned, outcomes, modelFailed, searchVars,
                   envVars, probe, sessVars,
                   edgeVars>>

\* the responses a generative model is explored to give
ModelResponses ==
    { Msg("assistant", c, tc, 0) :
        c \in {Text("Revenue grew 12%."), NULL}, tc \in {NoCalls, Calls(<<>>)} }
    \cup
    IF rounds < MaxRounds
    THEN { Msg("assistant", NULL, Calls(b), 0) :
             b \in Batches(calls, Min(MaxBatch, MaxCalls - calls)) }
    ELSE {}

\* a handler that answers with what it has instead of the error output
ModelFailPartialAnswer ==
    /\ pc = "AWAITING_MODEL"
    /\ response' = [status |-> 200, body |-> [answer |-> NULL, sources |-> sources]]
    /\ pc' = "DONE"
    /\ modelFailed' = TRUE
    /\ UNCHANGED <<body, messages, sources, assistantMessage, toolIdx, topK,
                   allResults, dbOpen, rounds, calls, modelCalls, retrievals,
                   returned, outcomes, searchVars, envVars, probe, sessVars,
                   edgeVars>>

\* openai.chat.completions.create rejects: processQuery throws, /ask catches
ModelFail ==
    /\ pc = "AWAITING_MODEL"
    /\ response' = ServerFault("chat completion failed")
    /\ pc' = "DONE"
    /\ modelFailed' = TRUE
    /\ UNCHANGED <<body, messages, sources, assistantMessage, toolIdx, topK,
                   allResults, dbOpen, rounds, calls, modelCalls, retrievals,
                   returned, outcomes, searchVars, envVars, probe, sessVars,
                   edgeVars>>

-----------------------------------------------------------------------------
(* processQuery: one iteration of `for (const toolCall of ...)' up to the
   first await of searchPdfs *)

\* args.top_k || 5
TopKOf(args) == IF args.has_top_k /\ args.top_k # 0 THEN args.top_k ELSE DefaultTopK

ToolBegin ==
    /\ pc = "EXECUTING_TOOLS"
    /\ IF CurrentCall.name # "search_pdfs"
       THEN \* no branch for another tool name: nothing is pushed
            /\ outcomes' = Append(outcomes,
                   [id |-> CurrentCall.id, kind |-> "skipped", result |-> Ok(<<>>)])
            /\ NextIteration
            /\ UNCHANGED <<messages, sources, topK, allResults, dbOpen, response,
                           retrievals, returned, searchVars>>
       ELSE IF ~CurrentCall.arguments.valid
       THEN \* JSON.parse throws outside the try block
            /\ response' = ServerFault("SyntaxError: Unexpected token")
            /\ pc' = "DONE"
            /\ outcomes' = Append(outcomes,
                   [id |-> CurrentCall.id, kind |-> "threw",
                    result |-> Throw("SyntaxError: Unexpected token")])
            /\ UNCHANGED <<messages, sources, toolIdx, topK, allResults, dbOpen,
                           modelCalls, retrievals, returned, searchVars>>
       ELSE /\ topK' = TopKOf(CurrentCall.arguments)
            /\ retrievals' = retrievals + 1
            /\ IF ~dbExists
               THEN \* if (!fs.existsSync(DB_PATH)) return [];
                    /\ ToolSettled(Ok(<<>>))
                    /\ UNCHANGED <<allResults, dbOpen, response, searchVars>>
               ELSE \* new Database(DB_PATH), then await getQueryEmbedding
                    /\ dbOpen' = dbOpen + 1
                    /\ allResults' = <<>>
                    /\ textRes' = <<>>
                    /\ clipEmb' = NULL
                    /\ clapEmb' = NULL
                    /\ pc' = "EMBED_TEXT"
                    /\ UNCHANGED <<messages, sources, toolIdx, response,
                                   modelCalls, returned, outcomes>>
    /\ UNCHANGED <<body, assistantMessage, rounds, calls, modelFailed, envVars, probe, sessVars,
                   edgeVars>>

\* db.close() only behind the return statement, no finally
SearchPdfsExitNoFinally(res) ==
    /\ dbOpen' = IF res.ok THEN dbOpen - 1 ELSE dbOpen
    /\ allResults' = <<>>
    /\ ToolSettled(res)
    /\ UNCHANGED <<body, assistantMessage, topK, response, rounds, calls,
                   retrievals, modelFailed, envVars, probe, sessVars,
                   edgeVars>>

\* searchPdfs leaves through `finally { db.close() }' with res
SearchPdfsExit(res) ==
    /\ dbOpen' = dbOpen - 1
    /\ allResults' = <<>>
    /\ ToolSettled(res)
    /\ UNCHANGED <<body, assistantMessage, topK, response, rounds, calls,
                   retrievals, modelFailed, envVars, probe, sessVars,
                   edgeVars>>

\* searchPdfs goes on to its next await
SearchPdfsStep(next, rows) ==
    /\ allResults' = allResults \o rows
    /\ pc' = next
    /\ UNCHANGED <<body, messages, sources, assistantMessage, toolIdx, topK,
                   dbOpen, response, logVars, envVars, probe, sessVars,
                   edgeVars>>

\* getQueryEmbedding settles: 1. Text Search
TextEmbed(emb) ==
    /\ pc = "EMBED_TEXT"
    /\ UNCHANGED <<clipEmb, clapEmb>>
    /\ IF emb = NULL
       THEN SearchPdfsExit(Throw(TextEmbedError)) /\ UNCHANGED textRes
       ELSE LET res == searchTable(documents, vssMode, emb, "text", topK,
                                   TEXT_EMBED_DIM)
            IN  IF res.ok
                THEN SearchPdfsStep("EMBED_IMAGE", res.val) /\ textRes' = res.val
                ELSE SearchPdfsExit(res) /\ UNCHANGED textRes

\* getClipTextEmbedding settles: 2. Image Search (CLIP)
ClipEmbed(emb) ==
    /\ pc = "EMBED_IMAGE"
    /\ clipEmb' = emb
    /\ UNCHANGED <<textRes, clapEmb>>
    /\ IF emb = NULL
       THEN SearchPdfsStep("EMBED_AUDIO", <<>>)
       ELSE LET imgRes == searchTable(documents, vssMode, emb, "image", topK,
                                      CLIP_DIM)
            IN  IF imgRes.ok
                THEN SearchPdfsStep("EMBED_AUDIO", imgRes.val)
                ELSE SearchPdfsExit(imgRes)

\* the merged list is cut to topK entries, as the two-modality searchPdfs does
ClapEmbedCapTopK(emb) ==
    /\ pc = "EMBED_AUDIO"
    /\ clapEmb' = emb
    /\ UNCHANGED <<textRes, clipEmb>>
    /\ LET audioRes == IF emb = NULL THEN Ok(<<>>)
                       ELSE searchTable(documents, vssMode, emb, "audio",
                                        topK, CLAP_DIM)
       IN  IF audioRes.ok
           THEN SearchPdfsExit(Ok(Slice0(allResults \o audioRes.val, topK)))
           ELSE SearchPdfsExit(audioRes)

\* getClapTextEmbedding settles: 3. Audio Search (CLAP), then the return
ClapEmbed(emb) ==
    /\ pc = "EMBED_AUDIO"
    /\ clapEmb' = emb
    /\ UNCHANGED <<textRes, clipEmb>>
    /\ LET audioRes == IF emb = NULL THEN Ok(<<>>)
                       ELSE searchTable(documents, vssMode, emb, "audio",
                                        topK, CLAP_DIM)
       IN  IF audioRes.ok
           THEN SearchPdfsExit(Ok(Slice0(allResults \o audioRes.val, topK * 3)))
           ELSE SearchPdfsExit(audioRes)

\* queryHfApi returns null without a token
HfAnswers(embs) == IF hfToken THEN embs \cup {NULL} ELSE {NULL}

-----------------------------------------------------------------------------

Next ==
    \/ \E b \in Bodies : AskReceive(b)
    \/ \E m \in ModelResponses : ModelRespond(m)
    \/ ModelFail
    \/ ToolBegin
    \/ \E e \in TextEmbeddings \cup {NULL} : TextEmbed(e)
    \/ \E e \in HfAnswers(ClipEmbeddings) : ClipEmbed(e)
    \/ \E e \in HfAnswers(ClapEmbeddings) : ClapEmbed(e)

Spec == Init /\ [][Next]_vars

-----------------------------------------------------------------------------
(* searchTable, cosineSimilarity, the embedding codec and the top_k default
   applied directly, once, to inputs drawn from bounded sets; the server stays
   idle *)

\* most rows of the modality in a store of the direct calls
MaxRows == 3

\* image chunks: 1 and 2 carry the same embedding
ProbePool ==
    { Row(1, "a.png", "image", "i1", Blob(4 * CLIP_DIM, <<1, 0>>)),
      Row(2, "b.png", "image", "i2", Blob(4 * CLIP_DIM, <<1, 0>>)),
      Row(3, "c.png", "image", "i3", Blob(4 * CLIP_DIM, <<0, 1>>)),
      Row(4, "d.png", "image", "i4", Blob(4 * CLIP_DIM, <<3, 4>>)) }

\* SELECT ... FROM documents WHERE content_type = ? has no ORDER BY: the rows
\* come in whatever order the engine picks
ProbeStores ==
    UNION { {s \in [1..n -> ProbePool] :
                \A i, j \in 1..n : i # j => s[i] # s[j]} : n \in 0..MaxRows }

ProbeQueries ==
    {Vec(CLIP_DIM, <<1, 0>>), Vec(CLIP_DIM, <<3, 4>>), Vec(CLIP_DIM, <<0, 0>>)}

ProbeTopKs == {-1, 0, 1, 2, 5}

ProbeVectors ==
    {Vec(n, h) : n \in {CLIP_DIM, 768},
                 h \in {<<1, 0>>, <<0, 1>>, <<3, 4>>, <<0, 0>>}}

\* components around 2^24 and 2^25, where single precision gets coarser
ProbeFloats == {0, 1, -3, 16777216, 16777217, -16777217, 16777219, 33554435}

CodecDims == {1, CLIP_DIM, TEXT_EMBED_DIM}

ProbeCodecVectors ==
    {Vec(d, <<x>>) : d \in CodecDims, x \in ProbeFloats}
        \cup {Vec(d, <<1, x>>) : d \in CodecDims \ {1}, x \in ProbeFloats}

\* parsed arguments of a search_pdfs invocation: top_k left out, or an integer
ProbeArgs ==
    {Args("revenue Q3", FALSE, 0)}
        \cup {Args("revenue Q3", TRUE, k) : k \in {-1, 0, 1, 5, 7}}

\* no request, no store
Quiet ==
    /\ InitRequest
    /\ dbExists = FALSE
    /\ documents = <<>>
    /\ vssMode = "unavailable"
    /\ hfToken = FALSE

ProbeInit ==
    /\ InitRequest
    /\ EdgeIdle
    /\ dbExists = FALSE
    /\ documents = <<>>
    /\ vssMode = "unavailable"
    /\ hfToken = FALSE

CallSearchTable(docs, vss, q, k) ==
    /\ probe = NoProbe
    /\ probe' = [op |-> "searchTable", docs |-> docs, vss |-> vss,
                 queryEmbedding |-> q, topK |-> k,
                 out |-> searchTable(docs, vss, q, "image", k, CLIP_DIM)]
    /\ UNCHANGED <<reqVars, searchVars, dbOpen, logVars, envVars, sessVars,
                   edgeVars>>

CallCosineSimilarity(a, b) ==
    /\ probe = NoProbe
    /\ probe' = [op |-> "cosineSimilarity", vecA |-> a, vecB |-> b,
                 out |-> cosineSimilarity(a, b)]
    /\ UNCHANGED <<reqVars, searchVars, dbOpen, logVars, envVars, sessVars,
                   edgeVars>>

\* the query vector written into the buffer of a modality, and the buffer
\* read back
CallRoundTrip(v, dim) ==
    /\ probe = NoProbe
    /\ probe' = [op |-> "roundTrip", vec |-> v, dim |-> dim,
                 out |-> IF serializeEmbedding(v, dim).ok
                         THEN deserializeEmbedding(serializeEmbedding(v, dim).val)
                         ELSE serializeEmbedding(v, dim)]
    /\ UNCHANGED <<reqVars, searchVars, dbOpen, logVars, envVars, sessVars,
                   edgeVars>>

\* const topK = args.top_k || 5;
CallTopKOf(args) ==
    /\ probe = NoProbe
    /\ probe' = [op |-> "topK", args |-> args, out |-> TopKOf(args)]
    /\ UNCHANGED <<reqVars, searchVars, dbOpen, logVars, envVars, sessVars,
                   edgeVars>>

\* searchPdfs of the two-modality variant on an existing store
CallSearchPdfsTextAndImages(docs, vss, clip, k) ==
    /\ probe = NoProbe
    /\ probe' = [op |-> "searchPdfsTextAndImages", docs |-> docs, vss |-> vss,
                 clipQueryEmbedding |-> clip, topK |-> k,
                 imageResults |-> imageResults(docs, vss, clip, k),
                 out |-> searchPdfsTextAndImages(docs, vss,
                             Vec(TEXT_EMBED_DIM, <<1, 0>>), clip, k)]
    /\ UNCHANGED <<reqVars, searchVars, dbOpen, logVars, envVars, sessVars,
                   edgeVars>>

ProbeNext ==
    \/ \E docs \in ProbeStores, vss \in VssModes, q \in ProbeQueries,
          k \in ProbeTopKs : CallSearchTable(docs, vss, q, k)
    \/ \E a, b \in ProbeVectors : CallCosineSimilarity(a, b)
    \/ \E v \in ProbeCodecVectors, dim \in CodecDims : CallRoundTrip(v, dim)
    \/ \E args \in ProbeArgs : CallTopKOf(args)
    \/ \E docs \in Stores, vss \in VssModes, k \in ProbeTopKs,
          clip \in ClipEmbeddings \cup {NULL} :
            CallSearchPdfsTextAndImages(docs, vss, clip, k)

ProbeSpec == ProbeInit /\ [][ProbeNext]_vars

-----------------------------------------------------------------------------
(* Two /ask requests in flight in one process.  Node runs one continuation
   at a time: the variables of the single-request specification are the
   locals of the request whose continuation runs, `parked' holds the locals
   of the other one, suspended at an await.  The store, the environment and
   the count of open handles belong to the process.  A caller may close its
   connection while its request is being processed. *)

\* most tool invocations the generative model issues in one of the requests
MaxConcCalls == 1

\* the body each caller posts
ConcBody(r) ==
    [query |-> IF r = 1 THEN Text("What happened to revenue in Q3?")
               ELSE Text("Who attended the kickoff?")]

ConcCallKinds ==
    { [name |-> "search_pdfs", arguments |-> Args("revenue Q3", TRUE, 1)],
      [name |-> "search_pdfs", arguments |-> Args("kickoff", FALSE, 0)] }

\* tool-call ids are unique across requests
ConcCallId(r, n) == 10 * r + n

ConcResponses ==
    { Msg("assistant", Text("Revenue grew 12%."), NoCalls, 0) }
    \cup
    IF calls < MaxConcCalls
    THEN { Msg("assistant", NULL,
               Calls(<<ToolCall(ConcCallId(active, calls + 1), k.name, k.arguments)>>), 0) :
             k \in ConcCallKinds }
    ELSE {}

\* the locals of the running request
Running ==
    [pc |-> pc, body |-> body, messages |-> messages, sources |-> sources,
     assistantMessage |-> assistantMessage, toolIdx |-> toolIdx, topK |-> topK,
     allResults |-> allResults, response |-> response, textRes |-> textRes,
     clipEmb |-> clipEmb, clapEmb |-> clapEmb, rounds |-> rounds,
     calls |-> calls, modelCalls |-> modelCalls, retrievals |-> retrievals,
     returned |-> returned, outcomes |-> outcomes, modelFailed |-> modelFailed,
     aborted |-> aborted]

\* `sources' declared at module level instead of inside processQuery
SwitchSharedSources ==
    /\ pc # "EXECUTING_TOOLS"
    /\ parked' = Running
    /\ active' = 3 - active
    /\ pc' = parked.pc
    /\ body' = parked.body
    /\ messages' = parked.messages
    /\ sources' = sources
    /\ assistantMessage' = parked.assistantMessage
    /\ toolIdx' = parked.toolIdx
    /\ topK' = parked.topK
    /\ allResults' = parked.allResults
    /\ response' = parked.response
    /\ textRes' = parked.textRes
    /\ clipEmb' = parked.clipEmb
    /\ clapEmb' = parked.clapEmb
    /\ rounds' = parked.rounds
    /\ calls' = parked.calls
    /\ modelCalls' = parked.modelCalls
    /\ retrievals' = parked.retrievals
    /\ returned' = parked.returned
    /\ outcomes' = parked.outcomes
    /\ modelFailed' = parked.modelFailed
    /\ aborted' = parked.aborted
    /\ UNCHANGED <<dbOpen, envVars, probe, edgeVars>>

\* the running continuation is suspended at an await (or has not started, or
\* has ended) and the event loop runs the other request's continuation
Switch ==
    /\ pc # "EXECUTING_TOOLS"
    /\ parked' = Running
    /\ active' = 3 - active
    /\ pc' = parked.pc
    /\ body' = parked.body
    /\ messages' = parked.messages
    /\ sources' = parked.sources
    /\ assistantMessage' = parked.assistantMessage
    /\ toolIdx' = parked.toolIdx
    /\ topK' = parked.topK
    /\ allResults' = parked.allResults
    /\ response' = parked.response
    /\ textRes' = parked.textRes
    /\ clipEmb' = parked.clipEmb
    /\ clapEmb' = parked.clapEmb
    /\ rounds' = parked.rounds
    /\ calls' = parked.calls
    /\ modelCalls' = parked.modelCalls
    /\ retrievals' = parked.retrievals
    /\ returned' = parked.returned
    /\ outcomes' = parked.outcomes
    /\ modelFailed' = parked.modelFailed
    /\ aborted' = parked.aborted
    /\ UNCHANGED <<dbOpen, envVars, probe, edgeVars>>

\* the caller closes the connection; the handler registers no listener for
\* it and passes no abort signal on, so nothing of the request changes
ClientAbort ==
    /\ pc \notin {"IDLE", "DONE"}
    /\ ~aborted
    /\ aborted' = TRUE
    /\ UNCHANGED <<reqVars, searchVars, dbOpen, logVars, envVars, probe,
                   parked, active, edgeVars>>

ConcInit ==
    /\ InitRequest
    /\ EdgeIdle
    /\ dbExists = TRUE
    /\ documents = StoreGood
    /\ vssMode = "unavailable"
    /\ hfToken = FALSE

ConcNext ==
    \/ AskReceive(ConcBody(active))
    \/ \E m \in ConcResponses : ModelRespond(m)
    \/ ModelFail
    \/ ToolBegin
    \/ \E e \in TextEmbeddings \cup {NULL} : TextEmbed(e)
    \/ \E e \in HfAnswers(ClipEmbeddings) : ClipEmbed(e)
    \/ \E e \in HfAnswers(ClapEmbeddings) : ClapEmbed(e)
    \/ Switch
    \/ ClientAbort

ConcSpec == ConcInit /\ [][ConcNext]_vars

-----------------------------------------------------------------------------
(* ui/Components/ChatBox.jsx *)

\* most requests the chat box is explored to send
MaxSubmits == 2
\* most submits explored that handleSubmit returns from at once
MaxDeclined == 1

\* a string is the sequence of its characters
Blank == " "
ChatQueries ==
    UNION {[1..n -> {Blank, "a"}] : n \in 0..2}

\* String.prototype.trim
RECURSIVE TrimStart(_)
TrimStart(str) ==
    IF str # <<>> /\ Head(str) = Blank THEN TrimStart(Tail(str)) ELSE str
RECURSIVE TrimEnd(_)
TrimEnd(str) ==
    IF str # <<>> /\ str[Len(str)] = Blank
    THEN TrimEnd(SubSeq(str, 1, Len(str) - 1)) ELSE str
Trim(str) == TrimEnd(TrimStart(str))

ERROR_TEXT == "Sorry, I encountered an error while searching your documents."

\* what the fetch of /ask comes to: a 200 with a JSON body, a non-OK status,
\* or a rejection (network failure, body that is not JSON)
AskOutcomes ==
    { [kind |-> "ok", data |-> [answer |-> "The revenue grew.",
                                sources |-> <<"report.pdf">>]],
      [kind |-> "not ok"],
      [kind |-> "rejected"] }

\* the `sources' property of a chat message: absent, or an array
NoSources == [defined |-> FALSE, list |-> <<>>]
SourcesOf(list) == [defined |-> TRUE, list |-> list]

RemoveAt(s, i) == SubSeq(s, 1, i - 1) \o SubSeq(s, i + 1, Len(s))

ChatFrame ==
    UNCHANGED <<reqVars, searchVars, dbOpen, logVars, envVars, probe, sessVars,
                sidebar, home, indexed, boot, net>>

\* onChange of the input: setQuery(e.target.value)
onChangeQuery(q) ==
    /\ q # chat.query
    /\ chat' = [chat EXCEPT !.query = q]
    /\ ChatFrame

\* the guard is `if (!query.trim()) return;' only
handleSubmitNoLoadingGuard ==
    /\ IF Trim(chat.query) = <<>>
       THEN /\ chat.declined < MaxDeclined
            /\ chat' = [chat EXCEPT !.declined = @ + 1]
       ELSE /\ Len(chat.messages) < 2 * MaxSubmits
            /\ chat' = [chat EXCEPT
                 !.messages = Append(@, [role |-> "user", content |-> chat.query,
                                         sources |-> NoSources]),
                 !.query = <<>>,
                 !.loading = TRUE,
                 !.inflight = Append(@, [query |-> chat.query])]
    /\ ChatFrame

\* handleSubmit up to its await: the early return, or the user message, the
\* cleared input, loading and the fetch of /ask
handleSubmit ==
    /\ IF Trim(chat.query) = <<>> \/ chat.loading
       THEN /\ chat.declined < MaxDeclined
            /\ chat' = [chat EXCEPT !.declined = @ + 1]
       ELSE /\ Len(chat.messages) < 2 * MaxSubmits
            /\ chat' = [chat EXCEPT
                 !.messages = Append(@, [role |-> "user", content |-> chat.query,
                                         sources |-> NoSources]),
                 !.query = <<>>,
                 !.loading = TRUE,
                 !.inflight = Append(@, [query |-> chat.query])]
    /\ ChatFrame

\* setLoading(false) stands behind the success path instead of in a finally
AskSettlesNoFinally(i, res) ==
    /\ i \in 1..Len(chat.inflight)
    /\ chat' = [chat EXCEPT
         !.inflight = RemoveAt(@, i),
         !.messages = Append(@,
             IF res.kind = "ok"
             THEN [role |-> "assistant", content |-> res.data.answer,
                   sources |-> SourcesOf(res.data.sources)]
             ELSE [role |-> "assistant", content |-> ERROR_TEXT,
                   sources |-> NoSources]),
         !.loading = IF res.kind = "ok" THEN FALSE ELSE @]
    /\ ChatFrame

\* handleSubmit behind its await: the answer or the fixed error text is
\* appended, and finally loading is cleared
AskSettles(i, res) ==
    /\ i \in 1..Len(chat.inflight)
    /\ chat' = [chat EXCEPT
         !.inflight = RemoveAt(@, i),
         !.messages = Append(@,
             IF res.kind = "ok"
             THEN [role |-> "assistant", content |-> res.data.answer,
                   sources |-> SourcesOf(res.data.sources)]
             ELSE [role |-> "assistant", content |-> ERROR_TEXT,
                   sources |-> NoSources]),
         !.loading = FALSE]
    /\ ChatFrame

ChatInit ==
    /\ Quiet
    /\ EdgeIdle

ChatNext ==
    \/ \E q \in ChatQueries : onChangeQuery(q)
    \/ handleSubmit
    \/ \E i \in 1..MaxSubmits, res \in AskOutcomes : AskSettles(i, res)

ChatSpec == ChatInit /\ [][ChatNext]_vars

\* the browser settles every fetch: the server answers, or the connection
\* fails or times out
ChatLiveSpec ==
    ChatSpec /\ WF_vars(\E i \in 1..MaxSubmits, res \in AskOutcomes : AskSettles(i, res))

-----------------------------------------------------------------------------
(* server/server.js: findAvailablePort and the server start *)

\* most ports findAvailablePort is explored to try
MaxProbes == 3

DEFAULT_PORT == 3001
MAX_PORT == 65535

\* a JavaScript number n, and the string of the decimal digits of n
Num(n) == [type |-> "number", val |-> n]
Str(n) == [type |-> "string", val |-> n]

ListenError(code) == [type |-> "error", code |-> code]

\* process.env.PORT: not set, or a string
EnvPorts == {NULL, Str(3001), Str(80), Str(65535)}

\* const PORT = process.env.PORT || 3001;
PortOf(env) == IF env = NULL THEN Num(DEFAULT_PORT) ELSE env

\* startPort + 1: addition on a number; on a string the digit 1 is appended
PlusOne(p) ==
    IF p.type = "number" THEN Num(p.val + 1) ELSE Str(p.val * 10 + 1)

\* the ports the exploration lets other processes hold
BootPorts == {3001, 3002, 3003, 30011}
\* ports below 1024 need a privilege the process may lack
Privileged == {80}

BootFrame ==
    UNCHANGED <<reqVars, searchVars, dbOpen, logVars, envVars, probe, sessVars,
                chat, sidebar, home, indexed>>

\* the module is loaded: PORT is read and findAvailablePort(PORT) is called
BootStart(env) ==
    /\ boot.pc = "not started"
    /\ boot' = [boot EXCEPT !.pc = "probing", !.PORT = PortOf(env),
                            !.startPort = PortOf(env)]
    /\ UNCHANGED net
    /\ BootFrame

\* app.listen(startPort, ...) of findAvailablePort and the event it leads to:
\* a port out of range throws inside the promise executor, EADDRINUSE calls
\* findAvailablePort(startPort + 1), any other error rejects, and
\* `listening' runs the callback
ProbeListen ==
    /\ boot.pc = "probing"
    /\ LET n == boot.startPort.val
       IN  IF n > MAX_PORT
           THEN boot' = [boot EXCEPT !.pc = "rejected",
                                     !.result = ListenError("ERR_SOCKET_BAD_PORT")]
           ELSE IF n \in net.denied
           THEN boot' = [boot EXCEPT !.pc = "rejected",
                                     !.result = ListenError("EACCES"),
                                     !.probes = Append(@, n)]
           ELSE IF n \in net.busy
           THEN /\ Len(boot.probes) < MaxProbes
                /\ boot' = [boot EXCEPT !.startPort = PlusOne(@),
                                        !.probes = Append(@, n)]
           ELSE boot' = [boot EXCEPT !.pc = "listening", !.open = n,
                                     !.probes = Append(@, n)]
    /\ UNCHANGED net
    /\ BootFrame

\* const port = server.address().port; server.close(() => resolve(port));
ProbeClose ==
    /\ boot.pc = "listening"
    /\ boot' = [boot EXCEPT !.pc = "resolved", !.result = Num(boot.open),
                            !.open = 0, !.closed = @ + 1]
    /\ UNCHANGED net
    /\ BootFrame

\* .then((availablePort) => app.listen(availablePort, ...)): no 'error'
\* listener is attached to this server
ServerListen ==
    /\ boot.pc = "resolved"
    /\ boot' = IF boot.result.val \in net.busy
               THEN [boot EXCEPT !.pc = "crashed"]
               ELSE [boot EXCEPT !.pc = "serving", !.open = boot.result.val]
    /\ UNCHANGED net
    /\ BootFrame

\* another process binds a free port
OtherProcessBinds(p) ==
    /\ boot.pc \in {"probing", "listening", "resolved"}
    /\ p \notin net.busy
    /\ p # boot.open
    /\ net' = [net EXCEPT !.busy = @ \cup {p}]
    /\ UNCHANGED boot
    /\ BootFrame

BootInit ==
    /\ Quiet
    /\ chat = ChatInitial
    /\ sidebar = SidebarInitial
    /\ home = HomeInitial
    /\ indexed = <<>>
    /\ boot = BootInitial
    /\ net \in [busy : SUBSET BootPorts, denied : {{}, Privileged}]

BootNext ==
    \/ \E env \in EnvPorts : BootStart(env)
    \/ ProbeListen
    \/ ProbeClose
    \/ ServerListen
    \/ \E p \in BootPorts : OtherProcessBinds(p)

BootSpec == BootInit /\ [][BootNext]_vars

-----------------------------------------------------------------------------
(* ui/Components/Sidebar.jsx *)

\* most clicks on the refresh button that are explored
MaxRefreshes == 3

FileLists == {<<>>, <<"report.pdf">>, <<"report.pdf", "car.png">>}

\* what the fetch of /files comes to: a 200 whose JSON body has `files' or
\* lacks it, a non-OK status, or a rejection
FilesOutcomes ==
    {[kind |-> "ok", hasFiles |-> TRUE, files |-> l] : l \in FileLists}
        \cup {[kind |-> "ok", hasFiles |-> FALSE, files |-> <<>>],
              [kind |-> "not ok", hasFiles |-> FALSE, files |-> <<>>],
              [kind |-> "rejected", hasFiles |-> FALSE, files |-> <<>>]}

\* err.message in the catch block
MessageOf(res) ==
    IF res.kind = "not ok" THEN "Failed to fetch files" ELSE "Failed to fetch"

\* data.files || []
FilesOrEmpty(res) == IF res.hasFiles THEN res.files ELSE <<>>

SidebarFrame ==
    UNCHANGED <<reqVars, searchVars, dbOpen, logVars, envVars, probe, sessVars,
                chat, home, indexed, boot, net>>

\* fetchFiles up to its await
fetchFiles == [sidebar EXCEPT !.pending = @ + 1]

\* useEffect(() => { fetchFiles(); }, [])
SidebarMount ==
    /\ ~sidebar.mounted
    /\ sidebar' = [fetchFiles EXCEPT !.mounted = TRUE]
    /\ SidebarFrame

\* onClick={fetchFiles} of the refresh button
Refresh ==
    /\ sidebar.mounted
    /\ sidebar.pending + Len(sidebar.settled) < 1 + MaxRefreshes
    /\ sidebar' = fetchFiles
    /\ SidebarFrame

\* fetchFiles behind its await: setFiles, or setError in the catch, and
\* setLoading(false) in the finally
FilesSettle(res) ==
    /\ sidebar.pending > 0
    /\ sidebar' =
         IF res.kind = "ok"
         THEN [sidebar EXCEPT !.pending = @ - 1, !.files = FilesOrEmpty(res),
                              !.loading = FALSE,
                              !.settled = Append(@, "succeeded")]
         ELSE [sidebar EXCEPT !.pending = @ - 1, !.error = MessageOf(res),
                              !.loading = FALSE,
                              !.settled = Append(@, "failed")]
    /\ SidebarFrame

\* the blocks of the render
ShowsError == sidebar.error # ""
ShowsList == ~sidebar.loading /\ sidebar.error = "" /\ Len(sidebar.files) > 0
ShowsEmpty == ~sidebar.loading /\ sidebar.error = "" /\ Len(sidebar.files) = 0

SidebarInit ==
    /\ Quiet
    /\ EdgeIdle

SidebarNext ==
    \/ SidebarMount
    \/ Refresh
    \/ \E res \in FilesOutcomes : FilesSettle(res)

SidebarSpec == SidebarInit /\ [][SidebarNext]_vars

-----------------------------------------------------------------------------
(* ui/app/page.js: Home *)

\* most uploads that are explored
MaxUploads == 2

\* a file name is the sequence of its parts between the dots
FileNames == << <<"report", "pdf">>, <<"car", "PNG">> >>

\* String.prototype.toLowerCase on the extensions that occur
ToLowerCase(str) == IF str = "PNG" THEN "png" ELSE str

\* filename.split('.').pop().toLowerCase() and the chain of ifs behind it
SourceType(filename) ==
    LET ext == ToLowerCase(filename[Len(filename)])
    IN  IF ext \in {"mp4", "mov", "avi"} THEN "video"
        ELSE IF ext \in {"mp3", "wav", "m4a"} THEN "audio"
        ELSE IF ext \in {"jpg", "jpeg", "png", "gif", "webp"} THEN "image"
        ELSE IF ext \in {"pdf", "doc", "docx", "txt"} THEN "pdf"
        ELSE "file"

\* (data.files || []).map(filename => ({ name: filename, type }))
transformedSources(res) ==
    [i \in 1..Len(FilesOrEmpty(res)) |->
        [name |-> FilesOrEmpty(res)[i],
         type |-> SourceType(FilesOrEmpty(res)[i])]]

NoAnswer == [kind |-> "none", hasFiles |-> FALSE, files |-> <<>>]

HomeFrame ==
    UNCHANGED <<reqVars, searchVars, dbOpen, logVars, envVars, probe, sessVars,
                chat, sidebar, boot, net>>

\* fetchSources up to its await
fetchSources ==
    [home EXCEPT !.fetches = Append(@, [state |-> "sent", res |-> NoAnswer])]

\* useEffect(() => { fetchSources(); }, [])
HomeMount ==
    /\ ~home.mounted
    /\ home' = [fetchSources EXCEPT !.mounted = TRUE]
    /\ UNCHANGED indexed
    /\ HomeFrame

\* app.get("/files") answers a request: { files } from getIndexedFiles(), or
\* status 500 with { error, details } when that throws
FilesAnswered(i, throws) ==
    /\ i \in 1..Len(home.fetches)
    /\ home.fetches[i].state = "sent"
    /\ home' = [home EXCEPT !.fetches[i] =
         [state |-> "answered",
          res |-> IF throws
                  THEN [kind |-> "not ok", hasFiles |-> FALSE, files |-> <<>>]
                  ELSE [kind |-> "ok", hasFiles |-> TRUE, files |-> indexed]]]
    /\ UNCHANGED indexed
    /\ HomeFrame

\* fetchSources behind its awaits, the response being there: res.ok is not
\* looked at
SourcesArrive(i) ==
    /\ i \in 1..Len(home.fetches)
    /\ home.fetches[i].state = "answered"
    /\ home' = [home EXCEPT !.fetches[i].state = "done",
                            !.sources = transformedSources(home.fetches[i].res),
                            !.isLoading = FALSE]
    /\ UNCHANGED indexed
    /\ HomeFrame

\* the fetch is rejected: catch, then finally
SourcesRejected(i) ==
    /\ i \in 1..Len(home.fetches)
    /\ home.fetches[i].state = "sent"
    /\ home' = [home EXCEPT !.fetches[i].state = "failed", !.isLoading = FALSE]
    /\ UNCHANGED indexed
    /\ HomeFrame

\* handleFileChange up to its await: nothing without a file, else the POST
handleFileChange(count) ==
    /\ home.mounted
    /\ IF count = 0
       THEN UNCHANGED home
       ELSE /\ home.uploads + home.uploaded < MaxUploads
            /\ home' = [home EXCEPT !.uploads = @ + 1]
    /\ UNCHANGED indexed
    /\ HomeFrame

\* handleFileChange behind its await: fetchSources() when res.ok, a console
\* message otherwise
UploadSettles(kind) ==
    /\ home.uploads > 0
    /\ home' = IF kind = "ok"
               THEN [fetchSources EXCEPT !.uploads = @ - 1, !.uploaded = @ + 1]
               ELSE [home EXCEPT !.uploads = @ - 1, !.uploaded = @ + 1]
    /\ UNCHANGED indexed
    /\ HomeFrame

\* the indexer has processed the next file of the input folder
IndexerAdds ==
    /\ home.mounted
    /\ Len(indexed) < Len(FileNames)
    /\ indexed' = Append(indexed, FileNames[Len(indexed) + 1])
    /\ UNCHANGED home
    /\ HomeFrame

HomeInit ==
    /\ Quiet
    /\ EdgeIdle

HomeNext ==
    \/ HomeMount
    \/ \E i \in 1..(1 + MaxUploads), throws \in BOOLEAN : FilesAnswered(i, throws)
    \/ \E i \in 1..(1 + MaxUploads) : SourcesArrive(i)
    \/ \E i \in 1..(1 + MaxUploads) : SourcesRejected(i)
    \/ \E count \in 0..1 : handleFileChange(count)
    \/ \E kind \in {"ok", "not ok", "rejected"} : UploadSettles(kind)
    \/ IndexerAdds

HomeSpec == HomeInit /\ [][HomeNext]_vars

-----------------------------------------------------------------------------
(* Properties *)

Last(s) == s[Len(s)]
InSearch == pc \in {"EMBED_TEXT", "EMBED_IMAGE", "EMBED_AUDIO"}
FirstIndex(s, x) == CHOOSE i \in 1..Len(s) : s[i] = x /\ \A j \in 1..(i - 1) : s[j] # x

\* C1: the tool-calling loop stops within a configured maximum number of
\* tool-execution rounds even if every model response requests a tool.  The
\* model is explored up to MaxRounds requests in a row, so a loop with any
\* configured maximum below that executes fewer than MaxRounds rounds.
C1_TerminatesWithinMaxRounds == rounds < MaxRounds

\* C2: the sources list holds every chunk id at most once, and in the order
\* in which the ids were first returned by a retrieval of the request; the
\* response carries that list.
C2_SourcesDedupFirstSeen ==
    /\ \A i, j \in 1..Len(sources) : i # j => sources[i].id # sources[j].id
    /\ {sources[i].id : i \in 1..Len(sources)} = Range(returned)
    /\ \A i, j \in 1..Len(sources) :
          i < j => FirstIndex(returned, sources[i].id) < FirstIndex(returned, sources[j].id)
    /\ response.status = 200 => response.body.sources = sources

\* two retrievals returned overlapping chunk ids and the request was answered
C2_Witness ==
    /\ pc = "DONE"
    /\ response.status = 200
    /\ Len(outcomes) = 2
    /\ Len(sources) >= 2
    /\ Len(returned) > Len(sources)

\* C3: after a model response the loop executes tools iff the response has at
\* least one tool invocation; otherwise the request is DONE and the answer
\* returned is the content of that last response.
C3_ToolCallsDecideTransition ==
    [][ (pc = "AWAITING_MODEL" /\ assistantMessage' # assistantMessage) =>
          IF assistantMessage'.tool_calls.present
             /\ Len(assistantMessage'.tool_calls.calls) >= 1
          THEN /\ pc' = "EXECUTING_TOOLS"
               /\ response' = NoResponse
               /\ Last(messages') = assistantMessage'
          ELSE /\ pc' = "DONE"
               /\ messages' = messages
               /\ response'.status = 200 =>
                     response'.body.answer = assistantMessage'.content ]_vars

\* after a tool round the model answered with an empty tool_calls list
C3_Witness ==
    /\ pc = "DONE"
    /\ rounds >= 1
    /\ assistantMessage.tool_calls = Calls(<<>>)
    /\ response.status = 200
    /\ response.body.answer = Text("Revenue grew 12%.")

\* C4: when searchPdfs throws for an invocation, processQuery does not raise:
\* it appends an error tool-result message for that invocation, leaves the
\* sources alone, goes on with the next invocation of the batch and, behind
\* the last one, calls the model again.
C4_SearchFailureFolded ==
    [][ (InSearch /\ Len(outcomes') > Len(outcomes) /\ ~Last(outcomes').result.ok) =>
          /\ response' = NoResponse
          /\ messages' = Append(messages,
                 Msg("tool", [kind |-> "error", message |-> Last(outcomes').result.error],
                     NoCalls, CurrentCall.id))
          /\ sources' = sources
          /\ IF toolIdx < Len(assistantMessage.tool_calls.calls)
             THEN pc' = "EXECUTING_TOOLS" /\ toolIdx' = toolIdx + 1
             ELSE pc' = "AWAITING_MODEL" /\ modelCalls' = modelCalls + 1 ]_vars

\* the first invocation of a batch of two failed, the second one was then
\* executed and the model was called again
C4_Witness ==
    /\ pc = "AWAITING_MODEL"
    /\ rounds = 1
    /\ Len(outcomes) = 2
    /\ outcomes[1].kind = "searched" /\ ~outcomes[1].result.ok
    /\ outcomes[2].kind = "searched" /\ outcomes[2].result.ok
    /\ modelCalls = 2

\* C5: when the model is called again after a tool round, the history ends
\* with the assistant message followed by exactly one tool-result message per
\* invocation of its batch, in the order of the batch, whatever the tool name.
C5_OneToolMessagePerInvocation ==
    (pc = "AWAITING_MODEL" /\ rounds >= 1) =>
        LET cs == assistantMessage.tool_calls.calls
            n == Len(messages) - Len(cs)
        IN  /\ n >= 1
            /\ messages[n] = assistantMessage
            /\ \A i \in 1..Len(cs) :
                  /\ messages[n + i].role = "tool"
                  /\ messages[n + i].tool_call_id = cs[i].id


TextEmbedFailed(o) == o.kind = "searched" /\ o.result = Throw(TextEmbedError)

\* C6: a failure of the mandatory text-embedding call during a retrieval
\* reaches the request boundary: the request ends with the server-fault
\* output, not with a normal answer.
C6_TextEmbedFailureEndsRequest ==
    (pc = "DONE" /\ \E i \in 1..Len(outcomes) : TextEmbedFailed(outcomes[i])) =>
        response.status = 500

\* C6 as amended: the text-embedding failure leaves searchPdfs as an error and
\* is reported to the model as the error tool-result message of that
\* invocation; it is never the reason of a server-fault output, whose only
\* reasons are a failed model call, an unparsable arguments string and a
\* final response without content.
C6_TextEmbedFailureFolded ==
    /\ \A i \in 1..Len(outcomes) :
          TextEmbedFailed(outcomes[i]) =>
             \E j \in 1..Len(messages) :
                /\ messages[j].role = "tool"
                /\ messages[j].tool_call_id = outcomes[i].id
                /\ messages[j].content = [kind |-> "error", message |-> TextEmbedError]
    /\ response.status = 500 =>
          \/ modelFailed
          \/ Len(outcomes) > 0 /\ Last(outcomes).kind = "threw"
          \/ pc = "DONE" /\ assistantMessage.content = NULL
                         /\ Len(assistantMessage.tool_calls.calls) = 0

\* a request whose retrieval lost its text embedding was answered normally
C6_Witness ==
    /\ pc = "DONE"
    /\ response.status = 200
    /\ \E i \in 1..Len(outcomes) : TextEmbedFailed(outcomes[i])

\* C7: when a chat-completion call fails, in the first call or in a later
\* round, /ask ends with status 500 and a body of exactly error and details:
\* no answer, no sources.
C7_ModelFailureIsServerFault ==
    modelFailed =>
        /\ pc = "DONE"
        /\ response.status = 500
        /\ DOMAIN response.body = {"error", "details"}
        /\ response.body.error = "Failed to process query"

\* the model call behind a round that had collected sources failed
C7_Witness ==
    /\ modelFailed
    /\ rounds >= 1
    /\ Len(sources) >= 1

Handled == pc # "IDLE"

\* C8: a missing or non-string query gets status 400 without any model call
\* or retrieval; every string query is processed by processQuery.
C8_StringQueriesProcessed ==
    Handled =>
        IF IsString(body.query)
        THEN modelCalls >= 1 /\ Len(messages) >= 2
        ELSE response.status = 400 /\ modelCalls = 0 /\ retrievals = 0

\* C8 as amended: a missing, non-string or empty-string query gets status 400
\* without any model call or retrieval; every non-empty string query is
\* processed by processQuery.
C8_NonEmptyStringQueriesProcessed ==
    Handled =>
        IF body.query.kind = "text" /\ body.query.text # ""
        THEN /\ modelCalls >= 1
             /\ Len(messages) >= 2
             /\ messages[2] = Msg("user", body.query, NoCalls, 0)
             /\ response.status # 400
        ELSE /\ pc = "DONE"
             /\ response = [status |-> 400, body |-> [error |-> "Query is required"]]
             /\ modelCalls = 0
             /\ retrievals = 0
             /\ messages = <<>>

\* the empty string was rejected
C8_Witness ==
    /\ pc = "DONE"
    /\ body.query = Text("")
    /\ response.status = 400
    /\ modelCalls = 0

TypesOf(results) == {results[i].content_type : i \in 1..Len(results)}

\* C9: with the image (audio) query embedding unavailable, searchPdfs does
\* not raise and returns no image (audio) result; with both unavailable it
\* returns exactly the results of the text search.
C9_DegradesToRemainingModalities ==
    [][ (pc = "EMBED_AUDIO" /\ pc' # pc /\ (clipEmb = NULL \/ clapEmb' = NULL)) =>
          LET res == Last(outcomes').result
          IN  /\ clapEmb' = NULL => res.ok
              /\ res.ok =>
                   /\ clipEmb = NULL => "image" \notin TypesOf(res.val)
                   /\ clapEmb' = NULL => "audio" \notin TypesOf(res.val)
                   /\ (clipEmb = NULL /\ clapEmb' = NULL) => res.val = textRes ]_vars

\* C10: an error raised while the image or audio index is searched is
\* contained: the image stage always hands over to the audio stage with the
\* text results kept, and the audio stage always ends searchPdfs with a
\* result.
C10_ModalityErrorContained ==
    [][ /\ pc = "EMBED_IMAGE" =>
             pc' = "EMBED_AUDIO" /\ SubSeq(allResults', 1, Len(textRes)) = textRes
        /\ (pc = "EMBED_AUDIO" /\ pc' # pc) => Last(outcomes').result.ok ]_vars

\* what the VSS query of the running search answers for a modality: no row
\* when it raises
VssAnswer(type) ==
    IF vssMode = "unavailable" THEN <<>>
    ELSE VssRows(documents, type, vssMode, topK)

\* rows of the VSS path carry no similarity, rows of the brute-force path do
FromIndex(rows) == \A i \in 1..Len(rows) : "similarity" \notin DOMAIN rows[i]
FromBruteForce(rows) == \A i \in 1..Len(rows) : "similarity" \in DOMAIN rows[i]

\* the image rows of the running search, once the image stage is over
ImageRows == SubSeq(allResults, Len(textRes) + 1, Len(allResults))

PathChosen(type, rows, emb, dim) ==
    IF Len(VssAnswer(type)) > 0
    THEN FromIndex(rows) /\ Ids(rows) = Ids(VssAnswer(type))
    ELSE /\ FromBruteForce(rows)
         /\ BruteForce(documents, emb, type, topK, dim).ok
         /\ rows = BruteForce(documents, emb, type, topK, dim).val

\* C11: a modality search returns the rows of the VSS index when the index
\* query succeeds with at least one row; when the query raises or answers no
\* row, the rows are those of the brute-force cosine scan over the stored
\* chunks of the modality.  Stated for the text stage and the image stage of
\* every search that got past them.
C11_IndexElseBruteForce ==
    /\ pc = "EMBED_IMAGE" =>
           \E e \in TextEmbeddings : PathChosen("text", textRes, e, TEXT_EMBED_DIM)
    /\ pc = "EMBED_AUDIO" /\ clipEmb # NULL =>
           PathChosen("image", ImageRows, clipEmb, CLIP_DIM)

\* the index answered no image row and the scan found some
C11_Witness ==
    /\ pc = "EMBED_AUDIO"
    /\ clipEmb # NULL
    /\ vssMode = "empty"
    /\ Len(ImageRows) > 0
    /\ FromBruteForce(ImageRows)

\* the direct searchTable call took the brute-force path
OnBruteForcePath ==
    /\ probe.op = "searchTable"
    /\ \/ probe.vss = "unavailable"
       \/ Len(VssRows(probe.docs, "image", probe.vss, probe.topK)) = 0

\* cosine similarity of a stored chunk to the query of the direct call
ProbeSim(doc) ==
    cosineSimilarity(probe.queryEmbedding, deserializeEmbedding(doc.embedding).val)

\* x >= y for two (non-NaN) similarities
SimGeq(x, y) == x.num * y.den >= y.num * x.den

StoredWithId(i) == CHOOSE d \in Range(probe.docs) : d.id = i

\* C12: on the brute-force path, for a store of N chunks of the modality
\* (each of the configured dimension) and any query vector, the result holds
\* stored chunks, each once, in descending order of cosine similarity to the
\* query, no chunk left out is more similar than a returned one, and for a
\* count top_k >= 0 the result has exactly min(top_k, N) entries.
C12_BruteForceTopK ==
    OnBruteForcePath =>
        /\ probe.out.ok
        /\ LET out == probe.out.val
               k == probe.topK
               ids == {out[i].id : i \in 1..Len(out)}
               S(i) == ProbeSim(StoredWithId(i))
           IN  /\ ids \subseteq {d.id : d \in Range(probe.docs)}
               /\ Cardinality(ids) = Len(out)
               /\ \A i, j \in 1..Len(out) : i < j => SimGeq(S(out[i].id), S(out[j].id))
               /\ \A d \in Range(probe.docs) : d.id \notin ids =>
                      \A i \in 1..Len(out) : SimGeq(S(out[i].id), ProbeSim(d))
               /\ k >= 0 => Len(out) = Min(k, Len(probe.docs))

\* the two most similar of three chunks, which the store did not return first
C12_Witness ==
    /\ OnBruteForcePath
    /\ probe.out.ok
    /\ Len(probe.docs) = 3
    /\ probe.topK = 2
    /\ Len(probe.out.val) = 2
    /\ Ids(probe.out.val) = <<probe.docs[3].id, probe.docs[2].id>>
    /\ ~SimGeq(ProbeSim(probe.docs[1]), ProbeSim(probe.docs[2]))

\* C13: on the brute-force path, returned chunks of equal similarity stand in
\* ascending order of chunk id (whatever order the store returned its rows in).
C13_TiesByAscendingId ==
    OnBruteForcePath /\ probe.out.ok =>
        LET out == probe.out.val
        IN  \A i, j \in 1..Len(out) :
                /\ i < j
                /\ SimGeq(out[i].similarity, out[j].similarity)
                /\ SimGeq(out[j].similarity, out[i].similarity)
                => out[i].id < out[j].id

\* C14: for every top_k that reaches a modality search (negative values
\* included), the list the search returns has at most top_k entries.  Stated
\* for the text stage and the image stage of every search that got past them.
C14_AtMostTopK ==
    /\ pc = "EMBED_IMAGE" => Len(textRes) <= topK
    /\ pc = "EMBED_AUDIO" /\ clipEmb # NULL => Len(ImageRows) <= topK

\* C15: a brute-force search does not return when a stored embedding of the
\* modality has another length than the configured dimension (it raises
\* DimensionMismatch instead); i.e. whenever the text stage has returned from
\* the brute-force path, every stored text embedding has TEXT_EMBED_DIM
\* components.
C15_MismatchRaises ==
    pc = "EMBED_IMAGE" /\ Len(VssAnswer("text")) = 0 =>
        \A d \in Range(OfType(documents, "text")) :
            /\ deserializeEmbedding(d.embedding).ok
            /\ deserializeEmbedding(d.embedding).val.len = TEXT_EMBED_DIM

IsPrefix(s, t) == Len(s) <= Len(t) /\ s = SubSeq(t, 1, Len(s))

ModalityRank(type) == CASE type = "text" -> 1 [] type = "image" -> 2 [] OTHER -> 3

\* the rows the audio stage of the running search gets for the embedding emb
AudioRows(emb) ==
    IF emb = NULL THEN <<>>
    ELSE searchTable(documents, vssMode, emb, "audio", topK, CLAP_DIM).val

\* C16: the list searchPdfs returns is the text rows, then the image rows,
\* then the audio rows, each list in the order its modality search gave it
\* (a prefix of the concatenation, nothing re-ranked), cut to top_k * 3
\* entries: for a count top_k >= 0 it has min(top_k * 3, total) entries.
C16_ConcatenatedAndCapped ==
    [][ pc = "EMBED_AUDIO" /\ pc' # "EMBED_AUDIO" /\ Last(outcomes').result.ok =>
          LET out == Last(outcomes').result.val
              merged == allResults \o AudioRows(clapEmb')
          IN  /\ allResults = textRes \o ImageRows
              /\ \A i \in 1..Len(ImageRows) : ImageRows[i].content_type = "image"
              /\ IsPrefix(out, merged)
              /\ \A i, j \in 1..Len(out) : i < j =>
                     ModalityRank(out[i].content_type) <= ModalityRank(out[j].content_type)
              /\ topK >= 0 => Len(out) = Min(topK * 3, Len(merged)) ]_vars

\* a search has returned text, image and audio rows
C16_Witness ==
    /\ pc \in {"AWAITING_MODEL", "EXECUTING_TOOLS"}
    /\ outcomes # <<>>
    /\ Last(outcomes).kind = "searched"
    /\ Last(outcomes).result.ok
    /\ TypesOf(Last(outcomes).result.val) = {"text", "image", "audio"}
    /\ Len(Last(outcomes).result.val) = topK * 3

\* C17: while the store file does not exist, no search gets as far as an
\* embedding provider or an open store handle, every search_pdfs invocation
\* returns the empty list without raising, and every tool-result message
\* tells the model that no relevant documents were found (never an error).
C17_MissingStoreIsEmptyResult ==
    ~dbExists =>
        /\ ~InSearch
        /\ dbOpen = 0
        /\ \A i \in 1..Len(outcomes) :
               outcomes[i].kind = "searched" => outcomes[i].result = Ok(<<>>)
        /\ \A i \in 1..Len(messages) :
               messages[i].role = "tool" => messages[i].content = [kind |-> "none"]
        /\ sources = <<>>

\* a search against a missing store has been answered to the model
C17_Witness ==
    /\ ~dbExists
    /\ pc = "AWAITING_MODEL"
    /\ outcomes # <<>>
    /\ Last(outcomes).kind = "searched"
    /\ Last(messages).role = "tool"
    /\ Last(messages).content = [kind |-> "none"]

\* C18: the number of store handles opened and not yet closed is 1 while a
\* searchPdfs call that opened the store is running and 0 at every other
\* time: each such call closes its handle exactly once, whichever way it ends.
C18_StoreClosedOnEveryExit ==
    dbOpen = IF InSearch THEN 1 ELSE 0

\* one search ended by a text-embedding failure and one by an error raised
\* inside a modality search; no handle is left
C18_Witness ==
    /\ ~InSearch
    /\ dbOpen = 0
    /\ \E i, j \in 1..Len(outcomes) :
           /\ outcomes[i].kind = "searched"
           /\ outcomes[i].result = Throw(TextEmbedError)
           /\ outcomes[j].kind = "searched"
           /\ ~outcomes[j].result.ok
           /\ outcomes[j].result # Throw(TextEmbedError)

\* what cosineSimilarity hands back is a number (NaN included), not an error
IsNumber(x) == "nan" \in DOMAIN x

IsZeroVector(v) == \A i \in 1..Len(v.head) : v.head[i] = 0

\* C19: cosineSimilarity called with two vectors of different lengths does
\* not hand back a number or NaN (it reports DimensionMismatch).
C19_UnequalLengthsRaise ==
    probe.op = "cosineSimilarity" /\ probe.vecA.len # probe.vecB.len
        => ~IsNumber(probe.out)

\* C20: for vectors of equal length, cosineSimilarity never divides by zero
\* (its result is a number with a non-zero denominator, not NaN), and the
\* result is 0 whenever one of the two is the zero vector.
C20_ZeroVectorGivesZero ==
    probe.op = "cosineSimilarity" /\ probe.vecA.len = probe.vecB.len =>
        /\ ~probe.out.nan
        /\ probe.out.den # 0
        /\ IsZeroVector(probe.vecA) \/ IsZeroVector(probe.vecB)
               => probe.out.num = 0

\* a zero vector against a non-zero one of the same length
C20_Witness ==
    /\ probe.op = "cosineSimilarity"
    /\ probe.vecA.len = probe.vecB.len
    /\ ~IsZeroVector(probe.vecA)
    /\ IsZeroVector(probe.vecB)
    /\ probe.out = Sim(0, 1)

\* x == y for two results of cosineSimilarity (NaN equals nothing)
SimEq(x, y) == ~x.nan /\ ~y.nan /\ x.num * y.den = y.num * x.den

\* C21: cosineSimilarity(a, b) equals cosineSimilarity(b, a) for every pair
\* of vectors it is called with.
C21_CosineSymmetric ==
    probe.op = "cosineSimilarity" =>
        SimEq(probe.out, cosineSimilarity(probe.vecB, probe.vecA))

\* y is x up to the rounding of x to single precision
WithinSinglePrecision(x, y) == 2 * Abs(y - x) <= UlpOf(x)

\* C22: a vector of the modality's dimension d, written into the 4*d-byte
\* buffer and read back, comes back with length d and with every component
\* equal to the original within single-precision rounding (d in 1, 512, 3072).
C22_CodecRoundTrip ==
    probe.op = "roundTrip" /\ probe.vec.len = probe.dim =>
        /\ probe.out.ok
        /\ probe.out.val.len = probe.dim
        /\ Len(probe.out.val.head) = Len(probe.vec.head)
        /\ \A i \in 1..Len(probe.vec.head) :
               WithinSinglePrecision(probe.vec.head[i], probe.out.val.head[i])

\* a 3072-vector came back rounded
C22_Witness ==
    /\ probe.op = "roundTrip"
    /\ probe.vec.len = TEXT_EMBED_DIM
    /\ probe.dim = TEXT_EMBED_DIM
    /\ probe.out.ok
    /\ probe.out.val.len = TEXT_EMBED_DIM
    /\ probe.out.val # probe.vec

\* some stored embedding of the modality has a byte length that is not a
\* multiple of 4
MalformedStored(type) ==
    \E d \in Range(OfType(documents, type)) : d.embedding.bytes % 4 # 0

\* C23: when the brute-force image search meets a stored embedding whose byte
\* length is not a multiple of 4, deserializeEmbedding raises (the
\* MalformedEmbedding case): the search produces no rows from a truncated
\* vector, the store is closed, the error becomes the tool-result message of
\* that one invocation, and the request goes on (no response is sent, the
\* sources stay as they were).
C23_MalformedEmbeddingFailsLookup ==
    [][ /\ pc = "EMBED_IMAGE"
        /\ clipEmb' # NULL
        /\ serializeEmbedding(clipEmb', CLIP_DIM).ok
        /\ Len(VssAnswer("image")) = 0
        /\ MalformedStored("image")
        => /\ pc' \in {"EXECUTING_TOOLS", "AWAITING_MODEL"}
           /\ ~Last(outcomes').result.ok
           /\ Last(messages').role = "tool"
           /\ Last(messages').content = ToolError(Last(outcomes').result.error)
           /\ dbOpen' = 0
           /\ sources' = sources
           /\ response' = NoResponse ]_vars

\* a malformed image embedding has failed a search and the request went on
C23_Witness ==
    /\ pc = "AWAITING_MODEL"
    /\ MalformedStored("image")
    /\ vssMode # "rows"
    /\ clipEmb # NULL
    /\ serializeEmbedding(clipEmb, CLIP_DIM).ok
    /\ outcomes # <<>>
    /\ Last(outcomes).kind = "searched"
    /\ Last(outcomes).result = Throw("RangeError: out of range")
    /\ Last(messages).content.kind = "error"

\* the tool-call ids the generative model has issued in the history h
IssuedIds(h) ==
    UNION { {h[i].tool_calls.calls[j].id : j \in 1..Len(h[i].tool_calls.calls)} :
              i \in {k \in 1..Len(h) : h[k].role = "assistant"} }

\* the history and the sources of request req, posted by caller r, hold
\* nothing of the other request
PrivateTo(req, r) ==
    /\ req.messages # <<>> => req.messages[2].content = ConcBody(r).query
    /\ \A id \in IssuedIds(req.messages) : id \div 10 = r
    /\ \A i \in 1..Len(req.messages) :
           req.messages[i].role = "tool"
               => req.messages[i].tool_call_id \in {o.id : o \in Range(req.outcomes)}
    /\ \A i \in 1..Len(req.outcomes) : req.outcomes[i].id \div 10 = r
    /\ \A i \in 1..Len(req.sources) : req.sources[i].id \in Range(req.returned)
    /\ req.response.status = 200 =>
           \A i \in 1..Len(req.response.body.sources) :
               req.response.body.sources[i].id \in Range(req.returned)

\* C24: under every interleaving of two /ask requests, the history of each
\* request holds only its own query, its own tool calls and their results,
\* and its sources (also those of its response) hold only ids of chunks that
\* its own retrievals returned.
C24_RequestsArePrivate ==
    PrivateTo(Running, active) /\ PrivateTo(parked, 3 - active)

\* both requests answered with sources, and their sources differ
C24_Witness ==
    /\ response.status = 200
    /\ parked.response.status = 200
    /\ response.body.sources # <<>>
    /\ parked.response.body.sources # <<>>
    /\ response.body.sources # parked.response.body.sources

\* C25: once the caller has aborted, no further model call and no further
\* retrieval is started for that request.
C25_AbortStopsRequest ==
    [][ aborted /\ active' = active =>
            /\ modelCalls' = modelCalls
            /\ retrievals' = retrievals ]_vars

\* {id, file_name} of the stored chunks with the given ids
SourceEntries(ids) ==
    {[id |-> d.id, file_name |-> d.file_name] : d \in {x \in Range(documents) : x.id \in ids}}

\* C26: the body of a 200 response has the fields answer and sources, and
\* sources lists, once each, exactly the {id, file_name} of the chunks that
\* the successful retrievals of the request returned (none when there was no
\* retrieval, or every retrieval failed or returned nothing).
C26_ResponseShapeAndSources ==
    response.status = 200 =>
        /\ DOMAIN response.body = {"answer", "sources"}
        /\ IsString(response.body.answer)
        /\ Range(response.body.sources) = SourceEntries(Range(returned))
        /\ Len(response.body.sources) = Cardinality(SourceEntries(Range(returned)))

\* an answer with sources of two files, after a retrieval that failed too
C26_Witness ==
    /\ response.status = 200
    /\ Len(response.body.sources) >= 2
    /\ \E i, j \in 1..Len(response.body.sources) :
           response.body.sources[i].file_name # response.body.sources[j].file_name
    /\ \E i \in 1..Len(outcomes) : ~outcomes[i].result.ok

\* C27: an invocation without top_k is executed with top_k = 5, and an
\* invocation with an integer top_k is executed with exactly that integer.
C27_TopKDefaultElseExact ==
    probe.op = "topK" =>
        probe.out = IF probe.args.has_top_k THEN probe.args.top_k ELSE 5

\* C28: a search_pdfs invocation whose arguments are not valid JSON ends
\* like a failed search: an error tool-result message for that invocation is
\* appended and the request goes on (no response is sent at that point).
C28_InvalidArgumentsFolded ==
    [][ /\ pc = "EXECUTING_TOOLS"
        /\ CurrentCall.name = "search_pdfs"
        /\ ~CurrentCall.arguments.valid
        => /\ response' = NoResponse
           /\ pc' # "DONE"
           /\ Len(messages') = Len(messages) + 1
           /\ Last(messages').role = "tool"
           /\ Last(messages').tool_call_id = CurrentCall.id
           /\ Last(messages').content.kind = "error" ]_vars

\* C29: in every step of a request the sources list keeps all its entries at
\* their places (the old list is a prefix of the new one), a step that
\* settles a failed tool invocation leaves it unchanged, and every entry
\* carries the file name of the chunk with its id.
C29_SourcesOnlyGrow ==
    [][ /\ IsPrefix(sources, sources')
        /\ Len(outcomes') > Len(outcomes) /\ ~Last(outcomes').result.ok
               => sources' = sources
        /\ Range(sources') \subseteq SourceEntries(Range(returned')) ]_vars

\* a retrieval added sources and a later invocation failed
C29_Witness ==
    /\ Len(sources) >= 2
    /\ \E i, j \in 1..Len(outcomes) :
           /\ i < j
           /\ outcomes[i].result.ok
           /\ Len(outcomes[i].result.val) >= 2
           /\ outcomes[j].kind = "searched"
           /\ ~outcomes[j].result.ok

CallIdsOf(m) == {m.tool_calls.calls[j].id : j \in 1..Len(m.tool_calls.calls)}

\* the history h of a request with query q: system message, user message,
\* then assistant messages with tool calls, each followed by tool results of
\* its own invocations only
WellOrdered(h, q) ==
    \/ h = <<>>
    \/ /\ Len(h) >= 2
       /\ h[1] = Msg("system", Text(SYSTEM_PROMPT), NoCalls, 0)
       /\ h[2] = Msg("user", q, NoCalls, 0)
       /\ \A i \in 3..Len(h) :
              \/ h[i].role = "assistant" /\ HasToolCalls(h[i])
              \/ /\ h[i].role = "tool"
                 /\ \E j \in 3..(i - 1) :
                        /\ h[j].role = "assistant"
                        /\ h[i].tool_call_id \in CallIdsOf(h[j])
                        /\ \A k \in (j + 1)..(i - 1) : h[k].role = "tool"

\* C30: every step of a request only appends to the conversation history,
\* and the history is always: the system message, the user query, then
\* assistant messages that carry tool calls, each followed (before the next
\* assistant message) by the tool results of its invocations; the final
\* answer, an assistant message without tool calls, is never in the history.
C30_HistoryAppendOnlyWellOrdered ==
    [][ IsPrefix(messages, messages') /\ WellOrdered(messages', body'.query) ]_vars

\* a request answered after two rounds of tool calls
C30_Witness ==
    /\ pc = "DONE"
    /\ response.status = 200
    /\ rounds = 2
    /\ Len(messages) >= 6
    /\ Last(messages).role = "tool"

-----------------------------------------------------------------------------
(* C31: in the two-modality searchPdfs, whenever the image search found rows,
   the returned list contains an image row (the result is a mix of text and
   images); stated for a positive top_k *)
C31_ImagesReturnedWhenFound ==
    (/\ probe.op = "searchPdfsTextAndImages"
     /\ probe.topK > 0
     /\ probe.out.ok
     /\ probe.imageResults.ok
     /\ Len(probe.imageResults.val) > 0)
        => \E i \in 1..Len(probe.out.val) :
              probe.out.val[i].content_type = "image"

-----------------------------------------------------------------------------
(* C32: the chat box has at most one /ask request in flight; a submit while a
   request is loading or with an empty / whitespace-only query changes no
   state and sends nothing *)
C32_OneRequestInFlight ==
    [][/\ Len(chat'.inflight) <= 1
       /\ (chat.loading \/ Trim(chat.query) = <<>>)
            => /\ Len(chat'.inflight) <= Len(chat.inflight)
               /\ Len(chat'.messages) > Len(chat.messages)
                    => Last(chat'.messages).role = "assistant"
       /\ chat'.declined # chat.declined
            => /\ chat.loading \/ Trim(chat.query) = <<>>
               /\ [chat' EXCEPT !.declined = 0] = [chat EXCEPT !.declined = 0]
      ]_vars

\* a submit was declined while a request is loading and the input holds text
C32_Witness ==
    /\ chat.loading
    /\ Trim(chat.query) # <<>>
    /\ chat.declined > 0
    /\ Len(chat.inflight) = 1

Alternates(msgs) ==
    \A i \in 1..Len(msgs) :
        msgs[i].role = IF i % 2 = 1 THEN "user" ELSE "assistant"

(* C33: every accepted submit eventually leaves the loading state, however
   the request ends, and by then exactly one assistant message stands behind
   the user message: the message list alternates user, assistant *)
C33_SubmitEndsWithOneReply ==
    /\ [](/\ Alternates(chat.messages)
          /\ chat.loading <=> Len(chat.messages) % 2 = 1)
    /\ (chat.loading ~> ~chat.loading)

\* two rounds, the first ended by the error text and the second by an answer
C33_Witness ==
    /\ ~chat.loading
    /\ Len(chat.messages) = 4
    /\ chat.messages[2].content = ERROR_TEXT
    /\ chat.messages[4].content # ERROR_TEXT

-----------------------------------------------------------------------------
(* C34: findAvailablePort probes p, p+1, p+2, ... in ascending numeric order,
   also for a start port taken from the PORT environment variable: the first
   probe is at p and every further probe is at the port one above the probe
   before it *)
C34_ProbesAscendByOne ==
    /\ Len(boot.probes) > 0 => boot.probes[1] = boot.PORT.val
    /\ \A i \in 2..Len(boot.probes) : boot.probes[i] = boot.probes[i - 1] + 1

-----------------------------------------------------------------------------
(* C35: in the Sidebar, once a fetch of the indexed-files list has succeeded,
   also after an earlier failed fetch, the sidebar shows the fetched list
   (or the empty-list note) and not the connection-error message *)
C35_SuccessShowsFetchedList ==
    (sidebar.settled # <<>> /\ Last(sidebar.settled) = "succeeded")
        => /\ ~ShowsError
           /\ ShowsList \/ ShowsEmpty

-----------------------------------------------------------------------------
\* no upload and no fetch of the source list is under way
AllComplete ==
    /\ home.uploads = 0
    /\ \A i \in 1..Len(home.fetches) :
          home.fetches[i].state \in {"done", "failed"}

(* C36: on the Home page, when all overlapping fetches of the source list
   have completed, the displayed sources are the server's response to the
   most recently issued fetch, in whatever order the responses arrived
   (stated for a last fetch that was answered with the file list) *)
C36_LatestFetchWins ==
    (/\ home.fetches # <<>>
     /\ AllComplete
     /\ Last(home.fetches).state = "done"
     /\ Last(home.fetches).res.kind = "ok")
        => home.sources = transformedSources(Last(home.fetches).res)

====
